---- MODULE Spec2Model ----
(***************************************************************************)
(* Model of src/agentThreshold.py: the Hyperliquid perpetual-positions     *)
(* threshold monitor.                                                      *)
(*                                                                         *)
(* Text is modelled as a sequence of one-character strings, so that        *)
(* sanitising, regular-expression search, trimming and upper-casing are    *)
(* computed character by character as the code computes them.              *)
(* A Decimal is the record [neg, coef, scale] standing for                 *)
(* (-1)^neg * coef * 10^(-scale), which is how decimal.Decimal keeps the   *)
(* sign, the coefficient and the exponent of the literal it was built from.*)
(***************************************************************************)
EXTENDS Integers, Sequences, FiniteSets, TLC

VARIABLES
    pc,             \* position of the single thread of control
    now,            \* time.time(), in milliseconds since the cycle began
    deadline,       \* wait_for_perp_table: deadline (ms), None outside it
    attempt,        \* wait_for_perp_table: attempt counter, None outside it
    last_error,     \* wait_for_perp_table: last_error, None outside it
    probe,          \* what the latest poll saw: the page and the raising queries
    table,          \* the Locator wait_for_perp_table returned, None before
    raw_rows,       \* scrape_perp_positions: raw_rows, None before collection
    row_idx,        \* number of raw_rows the for loop has consumed
    positions,      \* scrape_perp_positions: positions
    origin,         \* for each Position, the index of the raw row it came from
    returned,       \* the list scrape_perp_positions returned to main, None if none
    exceeding,      \* main: exceeding, None before the evaluation
    outbox,         \* every send_email call made, in order
    context_open,   \* the browser context is open
    browser_open,   \* the browser is open
    error,          \* the exception propagating (or that ended the cycle), None if none
    raw_text,       \* parse_decimal_from_text: its argument
    parsed,         \* parse_decimal_from_text: its result, "pending" before the call
    formatted,      \* format_decimal or format_currency: the text it returned
    reparsed,       \* parse_decimal_from_text of that text, "pending" before the call
    document,       \* locate_perp_table: the page it is called on
    failing,        \* locate_perp_table: the queries that raise during the call
    element         \* collect_table_rows: the table element its Locator resolves to

vars == <<pc, now, deadline, attempt, last_error, probe, table, raw_rows, row_idx,
          positions, origin, returned, exceeding, outbox, context_open, browser_open,
          error, raw_text, parsed, formatted, reparsed, document, failing, element>>

cycleVars == <<pc, now, deadline, attempt, last_error, probe, table, raw_rows, row_idx,
               positions, origin, returned, exceeding, outbox, context_open,
               browser_open, error>>

parseVars == <<raw_text, parsed, formatted, reparsed, document, failing, element>>

None == "None"

(***************************************************************************)
(* Characters and text                                                     *)
(***************************************************************************)
DigitChars == <<"0", "1", "2", "3", "4", "5", "6", "7", "8", "9">>

IsDigit(c) == \E i \in 1..10 : DigitChars[i] = c

DigitVal(c) == (CHOOSE i \in 1..10 : DigitChars[i] = c) - 1

IsSpace(c) == c = " "

\* str.replace(ch, "") for a one-character ch
RemoveChar(s, ch) == SelectSeq(s, LAMBDA c : c /= ch)

\* str.replace("USD", ""): one left-to-right pass over non-overlapping occurrences
RECURSIVE RemoveUSD(_)
RemoveUSD(s) ==
    IF Len(s) < 3 THEN s
    ELSE IF SubSeq(s, 1, 3) = <<"U", "S", "D">>
         THEN RemoveUSD(SubSeq(s, 4, Len(s)))
         ELSE <<Head(s)>> \o RemoveUSD(Tail(s))

RECURSIVE LStrip(_)
LStrip(s) == IF s /= <<>> /\ IsSpace(Head(s)) THEN LStrip(Tail(s)) ELSE s

RECURSIVE RStrip(_)
RStrip(s) ==
    IF s /= <<>> /\ IsSpace(s[Len(s)]) THEN RStrip(SubSeq(s, 1, Len(s) - 1)) ELSE s

\* str.strip()
Strip(s) == RStrip(LStrip(s))

LowerChars == <<"a", "c", "e", "i", "k", "m", "n", "o", "r", "s", "x", "z">>

UpperChars == <<"A", "C", "E", "I", "K", "M", "N", "O", "R", "S", "X", "Z">>

UpperChar(c) ==
    IF \E i \in 1..Len(LowerChars) : LowerChars[i] = c
    THEN UpperChars[CHOOSE i \in 1..Len(LowerChars) : LowerChars[i] = c]
    ELSE c

\* str.upper()
Upper(s) == [i \in 1..Len(s) |-> UpperChar(s[i])]

(***************************************************************************)
(* NUMERIC_PATTERN = -?\d+(?:\.\d+)? and its search                        *)
(***************************************************************************)
\* last index of the run of digits that starts at i (i - 1 if s[i] is no digit)
RECURSIVE DigitRunEnd(_, _)
DigitRunEnd(s, i) ==
    IF i <= Len(s) /\ IsDigit(s[i]) THEN DigitRunEnd(s, i + 1) ELSE i - 1

\* the end of the match of NUMERIC_PATTERN anchored at i, 0 if it does not match there
MatchEnd(s, i) ==
    LET d == IF i <= Len(s) /\ s[i] = "-" THEN i + 1 ELSE i
        e == DigitRunEnd(s, d)
    IN  IF e < d THEN 0
        ELSE IF e + 1 <= Len(s) /\ s[e + 1] = "." /\ DigitRunEnd(s, e + 2) >= e + 2
             THEN DigitRunEnd(s, e + 2)
             ELSE e

\* NUMERIC_PATTERN.search(s): the leftmost match ([found |-> FALSE] if there is none)
RECURSIVE SearchFrom(_, _)
SearchFrom(s, i) ==
    IF i > Len(s) THEN [found |-> FALSE]
    ELSE IF MatchEnd(s, i) > 0
         THEN [found |-> TRUE, group |-> SubSeq(s, i, MatchEnd(s, i))]
         ELSE SearchFrom(s, i + 1)

NUMERIC_PATTERN_search(s) == SearchFrom(s, 1)

RECURSIVE DigitsToNat(_)
DigitsToNat(s) ==
    IF s = <<>> THEN 0 ELSE 10 * DigitsToNat(SubSeq(s, 1, Len(s) - 1)) + DigitVal(s[Len(s)])

\* Decimal(m) for a string m matched by NUMERIC_PATTERN
Decimal(m) ==
    LET neg == m[1] = "-"
        body == IF neg THEN Tail(m) ELSE m
        digits == RemoveChar(body, ".")
        dot == CHOOSE k \in 0..Len(body) : IF \E j \in 1..Len(body) : body[j] = "."
                                             THEN k > 0 /\ body[k] = "."
                                             ELSE k = 0
    IN  [kind |-> "Decimal",
         neg |-> neg,
         coef |-> DigitsToNat(digits),
         scale |-> IF dot = 0 THEN 0 ELSE Len(body) - dot]

\* a sanitiser that leaves the thousands separators in the text
SanitizeKeepingCommas(raw) == Strip(RemoveUSD(RemoveChar(raw, "$")))

Sanitize(raw) == Strip(RemoveUSD(RemoveChar(RemoveChar(raw, ","), "$")))

\* Optional[str]: Python's None, or a str
NoneText == [none |-> TRUE]

Str(s) == [none |-> FALSE, text |-> s]

\* Optional[Decimal]: Python's None
Absent == [kind |-> "None"]

Zero == [kind |-> "Decimal", neg |-> FALSE, coef |-> 0, scale |-> 0]

\* a parser that substitutes zero for a value it cannot find
ParseDefaultingToZero(raw) ==
    IF raw.none THEN Zero
    ELSE LET match == NUMERIC_PATTERN_search(Sanitize(raw.text))
         IN  IF ~match.found THEN Zero ELSE Decimal(match.group)

parse_decimal_from_text(raw) ==
    IF raw.none THEN Absent
    ELSE LET match == NUMERIC_PATTERN_search(Sanitize(raw.text))
         IN  IF ~match.found THEN Absent ELSE Decimal(match.group)

(***************************************************************************)
(* format_decimal and format_currency                                      *)
(***************************************************************************)
RECURSIVE Pow10(_)
Pow10(n) == IF n = 0 THEN 1 ELSE 10 * Pow10(n - 1)

RECURSIVE NatToDigits(_)
NatToDigits(n) ==
    IF n < 10 THEN <<DigitChars[n + 1]>>
    ELSE Append(NatToDigits(n \div 10), DigitChars[(n % 10) + 1])

\* s filled with "0" on the left up to the width w
RECURSIVE ZeroFill(_, _)
ZeroFill(s, w) == IF Len(s) < w THEN ZeroFill(<<"0">> \o s, w) ELSE s

\* the "," option of the format: a thousands separator every three digits
RECURSIVE Grouped(_)
Grouped(s) ==
    IF Len(s) <= 3 THEN s
    ELSE Grouped(SubSeq(s, 1, Len(s) - 3)) \o <<",">> \o SubSeq(s, Len(s) - 2, Len(s))

\* f"{value:,.<places>f}": value rounded half-even to that many decimal places
FixedPoint(value, places) ==
    LET sign == IF value.neg THEN <<"-">> ELSE <<>>
        drop == value.scale - places
        keep == value.coef \div Pow10(drop)
        rest == value.coef % Pow10(drop)
        half == 5 * Pow10(drop - 1)
        q == IF rest > half \/ (rest = half /\ keep % 2 = 1) THEN keep + 1 ELSE keep
        whole == IF drop > 0 THEN q \div Pow10(places) ELSE value.coef \div Pow10(value.scale)
        fraction ==
            IF drop > 0 THEN ZeroFill(NatToDigits(q % Pow10(places)), places)
            ELSE (IF value.scale = 0 THEN <<>>
                  ELSE ZeroFill(NatToDigits(value.coef % Pow10(value.scale)), value.scale))
                 \o [i \in 1..(places - value.scale) |-> "0"]
    IN  sign \o Grouped(NatToDigits(whole)) \o <<".">> \o fraction

\* str.rstrip(ch)
RECURSIVE RStripChar(_, _)
RStripChar(s, ch) ==
    IF s /= <<>> /\ s[Len(s)] = ch THEN RStripChar(SubSeq(s, 1, Len(s) - 1), ch) ELSE s

format_decimal(value) ==
    LET text == FixedPoint(value, 6)
    IN  IF \E i \in 1..Len(text) : text[i] = "."
        THEN RStripChar(RStripChar(text, "0"), ".")
        ELSE text

format_currency(value) == <<"$">> \o FixedPoint(value, 2)

(***************************************************************************)
(* Decimal arithmetic                                                      *)
(***************************************************************************)

\* Decimal.__mul__: coefficients multiply, exponents add, signs combine; the
\* product is exact while it has at most 28 significant digits (the precision of
\* the default context), as every product of the values below has
DecMul(a, b) ==
    [kind |-> "Decimal",
     neg |-> a.neg /= b.neg,
     coef |-> a.coef * b.coef,
     scale |-> a.scale + b.scale]

\* Decimal.copy_abs
DecCopyAbs(a) == [a EXCEPT !.neg = FALSE]

\* the value of a, times 10^k, as an integer (k at least a.scale)
Scaled(a, k) == (IF a.neg THEN -1 ELSE 1) * a.coef * Pow10(k - a.scale)

MaxOf(x, y) == IF x >= y THEN x ELSE y

\* Decimal.__gt__: numeric comparison
DecGT(a, b) ==
    LET k == MaxOf(a.scale, b.scale) IN Scaled(a, k) > Scaled(b, k)

\* POSITION_VALUE_THRESHOLD = Decimal("50000")
POSITION_VALUE_THRESHOLD == Decimal(<<"5", "0", "0", "0", "0">>)

\* Position.position_value
position_value(pos) == DecMul(pos.size, pos.mark_price)

\* Position.absolute_position_value
absolute_position_value(pos) == DecCopyAbs(position_value(pos))

(***************************************************************************)
(* The rendered page                                                       *)
(*                                                                         *)
(* A row element has a tag, may sit in a tbody, may carry role="row", and  *)
(* holds the inner texts of its td cells and of its role="cell" elements.  *)
(* A table element holds the inner texts of its th cells and its row       *)
(* elements in document order.  A page holds, for each element matching    *)
(* the text "Perpetual Positions", the index of the first table of its     *)
(* nearest enclosing scope that contains one (0 if there is none), and     *)
(* its table elements in document order.                                   *)
(***************************************************************************)
RowSelectors == <<"tbody tr", "tr", "[role='row']">>

\* whether row element r matches the selector
Matches(r, selector) ==
    CASE selector = "tbody tr" -> r.tag = "tr" /\ r.in_tbody
      [] selector = "tr" -> r.tag = "tr"
      [] selector = "[role='row']" -> r.role_row

\* table.locator(selector): the matching row elements of a table element
RowsOf(tbl, selector) == SelectSeq(tbl.rows, LAMBDA r : Matches(r, selector))

\* A Locator is lazy: it names a query, resolved against the page at each use.
HeadingLocator(i) == [kind |-> "heading", idx |-> i]

NthTableLocator(i) == [kind |-> "nth", idx |-> i]

NoElement == [th |-> <<>>, rows |-> <<>>]

\* a page without a heading and without a table
NoPage == [headings |-> <<>>, tables |-> <<>>]

\* the table element a Locator resolves to on a page
Resolve(page, loc) ==
    CASE loc.kind = "heading" ->
            IF loc.idx <= Len(page.headings) /\ page.headings[loc.idx] > 0
            THEN page.tables[page.headings[loc.idx]] ELSE NoElement
      [] loc.kind = "nth" ->
            IF loc.idx <= Len(page.tables) THEN page.tables[loc.idx] ELSE NoElement
      [] OTHER -> NoElement

\* locator.count() of table.locator(selector)
RowCount(page, loc, selector) == Len(RowsOf(Resolve(page, loc), selector))

RECURSIVE Join(_)
\* " ".join(texts)
Join(texts) ==
    IF texts = <<>> THEN <<>>
    ELSE IF Len(texts) = 1 THEN texts[1]
    ELSE texts[1] \o <<" ">> \o Join(Tail(texts))

\* keyword in text
Contains(text, keyword) ==
    \E i \in 1..(Len(text) - Len(keyword) + 1) :
        SubSeq(text, i, i + Len(keyword) - 1) = keyword

COIN == <<"C", "O", "I", "N">>

SIZE == <<"S", "I", "Z", "E">>

MARK == <<"M", "A", "R", "K">>

\* headers_upper of a table element
HeadersUpper(tbl) == Join([i \in 1..Len(tbl.th) |-> Upper(Strip(tbl.th[i]))])

HeadersMatch(tbl) ==
    /\ HeadersUpper(tbl) /= <<>>
    /\ \A keyword \in {COIN, SIZE, MARK} : Contains(HeadersUpper(tbl), keyword)

\* locate_perp_table, lines 82-91: the first heading with a table candidate
\* (0 if none, or if a query of the heuristic raised and was caught)
PrimaryCandidate(page, raising) ==
    IF "heading" \in raising THEN 0
    ELSE IF \E i \in 1..Len(page.headings) : page.headings[i] > 0
         THEN CHOOSE i \in 1..Len(page.headings) :
                  /\ page.headings[i] > 0
                  /\ \A j \in 1..(i - 1) : page.headings[j] = 0
         ELSE 0

\* locate_perp_table, lines 93-103: the first table whose headers match (0 if none)
FallbackCandidate(page) ==
    IF \E i \in 1..Len(page.tables) : HeadersMatch(page.tables[i])
    THEN CHOOSE i \in 1..Len(page.tables) :
             /\ HeadersMatch(page.tables[i])
             /\ \A j \in 1..(i - 1) : ~HeadersMatch(page.tables[j])
    ELSE 0

\* a locator whose heading heuristic has no handler: its error leaves the function
LocateUnguarded(page, raising) ==
    IF "heading" \in raising
    THEN [raised |-> TRUE, loc |-> [kind |-> "None"]]
    ELSE IF PrimaryCandidate(page, raising) > 0
    THEN [raised |-> FALSE, loc |-> HeadingLocator(PrimaryCandidate(page, raising))]
    ELSE IF "scan" \in raising
    THEN [raised |-> TRUE, loc |-> [kind |-> "None"]]
    ELSE IF FallbackCandidate(page) > 0
    THEN [raised |-> FALSE, loc |-> NthTableLocator(FallbackCandidate(page))]
    ELSE [raised |-> FALSE, loc |-> [kind |-> "None"]]

\* a locator that scans the headers first and asks the headings last
LocateByHeadersFirst(page, raising) ==
    IF "scan" \in raising
    THEN [raised |-> TRUE, loc |-> [kind |-> "None"]]
    ELSE IF FallbackCandidate(page) > 0
    THEN [raised |-> FALSE, loc |-> NthTableLocator(FallbackCandidate(page))]
    ELSE IF PrimaryCandidate(page, raising) > 0
    THEN [raised |-> FALSE, loc |-> HeadingLocator(PrimaryCandidate(page, raising))]
    ELSE [raised |-> FALSE, loc |-> [kind |-> "None"]]

\* locate_perp_table(page): [raised, loc]; raising names the queries that raise
locate_perp_table(page, raising) ==
    IF PrimaryCandidate(page, raising) > 0
    THEN [raised |-> FALSE, loc |-> HeadingLocator(PrimaryCandidate(page, raising))]
    ELSE IF "scan" \in raising
    THEN [raised |-> TRUE, loc |-> [kind |-> "None"]]
    ELSE IF FallbackCandidate(page) > 0
    THEN [raised |-> FALSE, loc |-> NthTableLocator(FallbackCandidate(page))]
    ELSE [raised |-> FALSE, loc |-> [kind |-> "None"]]

(***************************************************************************)
(* wait_for_perp_table and collect_table_rows                              *)
(***************************************************************************)
TABLE_WAIT_SECONDS == 45

ROW_POLL_INTERVAL_MS == 1500

\* a probe that asks only the first row selector
ProbeFirstSelectorOnly(counts, raising, k, err) ==
    LET raised == RowSelectors[k] \in raising
        row_count == IF raised THEN 0 ELSE counts[k]
    IN  [ready |-> row_count > 0,
         last_error |-> IF raised THEN "RowCountError" ELSE err]

\* wait_for_perp_table, lines 114-122: the for loop over the row selectors from the
\* k-th on; counts[k] is what table.locator(RowSelectors[k]).count() returns unless
\* it raises, err is last_error so far
RECURSIVE ProbeRows(_, _, _, _)
ProbeRows(counts, raising, k, err) ==
    IF k > Len(RowSelectors) THEN [ready |-> FALSE, last_error |-> err]
    ELSE LET raised == RowSelectors[k] \in raising
             row_count == IF raised THEN 0 ELSE counts[k]
             err2 == IF raised THEN "RowCountError" ELSE err
         IN  IF row_count > 0 THEN [ready |-> TRUE, last_error |-> err2]
             ELSE ProbeRows(counts, raising, k + 1, err2)

\* the cells of a row element: td cells, or role="cell" elements if it has no td;
\* each inner text stripped
CellsOf(r) ==
    LET cell_locator == IF Len(r.td) = 0 THEN r.role_cell ELSE r.td
    IN  [c \in 1..Len(cell_locator) |-> Strip(cell_locator[c])]

RECURSIVE CollectFrom(_, _)
\* a collector that keeps the rows without cells
CollectKeepingEmptyRows(tbl, k) ==
    IF k > Len(RowSelectors) THEN <<>>
    ELSE LET row_locator == RowsOf(tbl, RowSelectors[k])
             rows == [i \in 1..Len(row_locator) |-> CellsOf(row_locator[i])]
         IN  IF Len(row_locator) = 0 THEN CollectFrom(tbl, k + 1)
             ELSE IF rows /= <<>> THEN rows
             ELSE CollectFrom(tbl, k + 1)

\* a collector that stops at the first selector with a positive row count, whether
\* or not any of its rows has cells
CollectFirstCounted(tbl, k) ==
    IF k > Len(RowSelectors) THEN <<>>
    ELSE LET row_locator == RowsOf(tbl, RowSelectors[k])
             cells == [i \in 1..Len(row_locator) |-> CellsOf(row_locator[i])]
             rows == SelectSeq(cells, LAMBDA row : Len(row) > 0)
         IN  IF Len(row_locator) = 0 THEN CollectFrom(tbl, k + 1)
             ELSE rows

\* collect_table_rows, lines 132-150, from the k-th selector on
CollectFrom(tbl, k) ==
    IF k > Len(RowSelectors) THEN <<>>
    ELSE LET row_locator == RowsOf(tbl, RowSelectors[k])
             cells == [i \in 1..Len(row_locator) |-> CellsOf(row_locator[i])]
             rows == SelectSeq(cells, LAMBDA row : Len(row) > 0)
         IN  IF Len(row_locator) = 0 THEN CollectFrom(tbl, k + 1)
             ELSE IF rows /= <<>> THEN rows
             ELSE CollectFrom(tbl, k + 1)

collect_table_rows(tbl) == CollectFrom(tbl, 1)

(***************************************************************************)
(* The Position Builder (scrape_perp_positions, lines 169-192) and the     *)
(* Threshold Evaluator (main, lines 256-258)                               *)
(***************************************************************************)
RECURSIVE Pad(_)
\* while len(normalized) < 4: normalized.append("")
Pad(normalized) == IF Len(normalized) < 4 THEN Pad(Append(normalized, <<>>)) ELSE normalized

\* a builder that rejects only rows without a coin, and defaults what it cannot parse
BuildDefaulting(row) ==
    LET normalized == Pad([i \in 1..Len(row) |-> Strip(row[i])])
        size_value == ParseDefaultingToZero(Str(normalized[3]))
        mark_value == ParseDefaultingToZero(Str(normalized[4]))
    IN  IF row = <<>> \/ Upper(Strip(row[1])) = COIN \/ normalized[1] = <<>>
        THEN [keep |-> FALSE]
        ELSE [keep |-> TRUE,
              pos |-> [coin |-> normalized[1], leverage |-> normalized[2],
                       size |-> size_value, mark_price |-> mark_value]]

\* a builder that compares the coin cell with "COIN" without upper-casing it
BuildCaseSensitive(row) ==
    LET normalized == Pad([i \in 1..Len(row) |-> Strip(row[i])])
        size_value == parse_decimal_from_text(Str(normalized[3]))
        mark_value == parse_decimal_from_text(Str(normalized[4]))
    IN  IF row = <<>> \/ Strip(row[1]) = COIN \/ normalized[1] = <<>>
           \/ size_value = Absent \/ mark_value = Absent
        THEN [keep |-> FALSE]
        ELSE [keep |-> TRUE,
              pos |-> [coin |-> normalized[1], leverage |-> normalized[2],
                       size |-> size_value, mark_price |-> mark_value]]

\* a builder that reads size and mark from the last two cells of the row
BuildFromLastCells(row) ==
    LET normalized == Pad([i \in 1..Len(row) |-> Strip(row[i])])
        n == Len(normalized)
        size_value == parse_decimal_from_text(Str(normalized[n - 1]))
        mark_value == parse_decimal_from_text(Str(normalized[n]))
    IN  IF row = <<>> \/ Upper(Strip(row[1])) = COIN \/ normalized[1] = <<>>
           \/ size_value = Absent \/ mark_value = Absent
        THEN [keep |-> FALSE]
        ELSE [keep |-> TRUE,
              pos |-> [coin |-> normalized[1], leverage |-> normalized[2],
                       size |-> size_value, mark_price |-> mark_value]]

\* one iteration of the for loop over raw_rows: [keep |-> FALSE] for a row the
\* loop skips, the Position it appends otherwise
BuildPosition(row) ==
    IF row = <<>> THEN [keep |-> FALSE]
    ELSE LET stripped == [i \in 1..Len(row) |-> Strip(row[i])]
         IN  IF Upper(stripped[1]) = COIN THEN [keep |-> FALSE]
             ELSE LET normalized == Pad(stripped)
                      coin == normalized[1]
                      leverage == normalized[2]
                      size_text == normalized[3]
                      mark_text == normalized[4]
                      size_value == parse_decimal_from_text(Str(size_text))
                      mark_value == parse_decimal_from_text(Str(mark_text))
                  IN  IF coin = <<>> \/ size_value = Absent \/ mark_value = Absent
                      THEN [keep |-> FALSE]
                      ELSE [keep |-> TRUE,
                            pos |-> [coin |-> coin, leverage |-> leverage,
                                     size |-> size_value, mark_price |-> mark_value]]

\* an evaluator that compares the signed value
ExceedsSigned(pos) == DecGT(position_value(pos), POSITION_VALUE_THRESHOLD)

\* pos.absolute_position_value > POSITION_VALUE_THRESHOLD
Exceeds(pos) == DecGT(absolute_position_value(pos), POSITION_VALUE_THRESHOLD)

\* main, lines 256-258
ExceedingOf(ps) == SelectSeq(ps, Exceeds)

(***************************************************************************)
(* State outside a running cycle                                           *)
(***************************************************************************)
NoTable == [kind |-> "None"]

NoProbe == [kind |-> "None"]

NoList == [ok |-> FALSE]

IdleCycle ==
    /\ now = 0
    /\ deadline = 0
    /\ attempt = 0
    /\ last_error = None
    /\ probe = NoProbe
    /\ table = NoTable
    /\ raw_rows = <<>>
    /\ row_idx = 0
    /\ positions = <<>>
    /\ origin = <<>>
    /\ returned = NoList
    /\ exceeding = <<>>
    /\ outbox = <<>>
    /\ context_open = FALSE
    /\ browser_open = FALSE
    /\ error = None

(***************************************************************************)
(* The pages a poll or a collection may find                               *)
(***************************************************************************)
Tr(cells) ==
    [tag |-> "tr", in_tbody |-> TRUE, role_row |-> FALSE, td |-> cells, role_cell |-> <<>>]

\* a row of the table head: th cells only
HeadTr ==
    [tag |-> "tr", in_tbody |-> FALSE, role_row |-> FALSE, td |-> <<>>, role_cell |-> <<>>]

AriaRow(cells) ==
    [tag |-> "div", in_tbody |-> FALSE, role_row |-> TRUE, td |-> <<>>, role_cell |-> cells]

PerpHeaders ==
    << <<"C", "o", "i", "n">>, <<"S", "i", "z", "e">>,
       <<"M", "a", "r", "k", " ", "P", "r", "i", "c", "e">> >>

\* BTC | 5x | 2.5 | $60,000 : value 150000
BtcCells ==
    << <<"B", "T", "C">>, <<"5", "x">>, <<"2", ".", "5">>,
       <<"$", "6", "0", ",", "0", "0", "0">> >>

\* ETH | 10x : a row cut short
EthCells == << <<"E", "T", "H">>, <<"1", "0", "x">> >>

\* SOL | 3x | -7 | 100 USD | extra : value -700
SolCells ==
    << <<"S", "O", "L">>, <<"3", "x">>, <<"-", "7">>,
       <<"1", "0", "0", " ", "U", "S", "D">>, <<"9">> >>

\* the header echoed into the body
EchoCells ==
    << <<" ", "C", "o", "i", "n">>, <<"x">>, <<"1">>, <<"2">> >>

\* the table container before its rows stream in
RenderingTable == [th |-> PerpHeaders, rows |-> <<>>]

\* the table with its head row only
HeadOnlyTable == [th |-> PerpHeaders, rows |-> <<HeadTr>>]

PopulatedTable ==
    [th |-> PerpHeaders, rows |-> <<HeadTr, Tr(BtcCells), Tr(EthCells), Tr(SolCells)>>]

QuietTable == [th |-> PerpHeaders, rows |-> <<Tr(EchoCells), Tr(SolCells)>>]

AriaTable == [th |-> <<>>, rows |-> <<AriaRow(BtcCells)>>]

\* another table of the page, with other headers
OtherTable == [th |-> << <<"T", "i", "m", "e">> >>, rows |-> <<Tr(<< <<"x">> >>)>>]

TableLists ==
    { <<>>, <<RenderingTable>>, <<HeadOnlyTable>>, <<PopulatedTable>>, <<QuietTable>>,
      <<AriaTable>>, <<OtherTable, PopulatedTable>>, <<OtherTable, RenderingTable>>,
      <<OtherTable>> }

HeadingLists == { <<>>, <<1>>, <<0, 2>> }

Pages ==
    { pg \in [headings : HeadingLists, tables : TableLists] :
        \A i \in 1..Len(pg.headings) : pg.headings[i] <= Len(pg.tables) }

\* the queries of a poll that may raise: the heading heuristic, the scan of the
\* tables, the row count under each selector
PollQueries == {"heading", "scan", "tbody tr", "tr", "[role='row']"}

RowQueries == {"tbody tr", "tr", "[role='row']"}

\* what the queries of a poll answer on a page: whether locate_perp_table raised,
\* the Locator it returned, the rows that Locator's table has under each selector,
\* and the row counts that raise
Observation(page, raising) ==
    LET located == locate_perp_table(page, raising)
    IN  [kind |-> "probe",
         raised |-> located.raised,
         loc |-> located.loc,
         counts |-> [k \in 1..Len(RowSelectors) |->
                        RowCount(page, located.loc, RowSelectors[k])],
         raising |-> raising \cap RowQueries]

\* every answer a poll can get
PollInputs == {Observation(page, raising) : page \in Pages, raising \in SUBSET PollQueries}

\* the Locators locate_perp_table can return
Locators == {obs.loc : obs \in {o \in PollInputs : o.loc.kind /= "None"}}

\* every row list collect_table_rows can return for a Locator, over the pages
Collectable(loc) == {collect_table_rows(Resolve(page, loc)) : page \in Pages}

(***************************************************************************)
(* One monitoring cycle: main                                              *)
(***************************************************************************)
\* how much later than asked page.wait_for_timeout may return (ms)
MaxLateMs == 21000

Init ==
    /\ pc = "start"
    /\ IdleCycle
    /\ raw_text = NoneText
    /\ parsed = Absent
    /\ formatted = NoneText
    /\ reparsed = Absent
    /\ document = NoPage
    /\ failing = {}
    /\ element = NoElement

\* scrape_perp_positions, lines 155-158: launch, new_context, new_page
Launch ==
    /\ pc = "start"
    /\ \E ok \in BOOLEAN :
          IF ok
          THEN /\ context_open' = TRUE
               /\ browser_open' = TRUE
               /\ pc' = "goto"
               /\ error' = error
          ELSE /\ error' = "LaunchError"
               /\ pc' = "failed"
               /\ UNCHANGED <<context_open, browser_open>>
    /\ UNCHANGED <<now, deadline, attempt, last_error, probe, table, raw_rows, row_idx,
                   positions, origin, returned, exceeding, outbox, parseVars>>

\* line 160: page.goto
Goto ==
    /\ pc = "goto"
    /\ \E ok \in BOOLEAN :
          IF ok THEN pc' = "load_state" /\ error' = error
          ELSE pc' = "finally_context" /\ error' = "NavigationError"
    /\ UNCHANGED <<now, deadline, attempt, last_error, probe, table, raw_rows, row_idx,
                   positions, origin, returned, exceeding, outbox, context_open,
                   browser_open, parseVars>>

\* lines 161-164: wait_for_load_state; its timeout is caught, any other error is not
WaitForLoadState ==
    /\ pc = "load_state"
    /\ \E outcome \in {"idle", "PlaywrightTimeoutError", "Error"} :
          IF outcome = "Error"
          THEN pc' = "finally_context" /\ error' = "LoadStateError"
          ELSE pc' = "wait_enter" /\ error' = error
    /\ UNCHANGED <<now, deadline, attempt, last_error, probe, table, raw_rows, row_idx,
                   positions, origin, returned, exceeding, outbox, context_open,
                   browser_open, parseVars>>

\* wait_for_perp_table, lines 107-109
WaitEnter ==
    /\ pc = "wait_enter"
    /\ deadline' = now + TABLE_WAIT_SECONDS * 1000
    /\ attempt' = 1
    /\ last_error' = None
    /\ pc' = "poll"
    /\ UNCHANGED <<now, probe, table, raw_rows, row_idx, positions, origin, returned,
                   exceeding, outbox, context_open, browser_open, error, parseVars>>

\* the outcome of the loop body given what its queries answer: "raise"
\* (locate_perp_table raised), "return" (line 122) or "retry" (lines 123-125),
\* with last_error
PollOutcome(obs, err) ==
    LET rows == ProbeRows(obs.counts, obs.raising, 1, err)
    IN  IF obs.raised THEN [kind |-> "raise", last_error |-> err]
        ELSE IF obs.loc.kind /= "None" /\ rows.ready
        THEN [kind |-> "return", last_error |-> rows.last_error]
        ELSE IF obs.loc.kind /= "None"
        THEN [kind |-> "retry", last_error |-> rows.last_error]
        ELSE [kind |-> "retry", last_error |-> err]

\* line 111 false, line 127: the deadline has passed
WaitTimeout ==
    /\ pc = "poll"
    /\ ~(now < deadline)
    /\ error' = "TableNotFound"
    /\ pc' = "finally_context"
    /\ UNCHANGED <<now, deadline, attempt, last_error, probe, table, raw_rows, row_idx,
                   positions, origin, returned, exceeding, outbox, context_open,
                   browser_open, parseVars>>

\* lines 111-124: one pass of the loop body, up to the wait
Poll ==
    /\ pc = "poll"
    /\ now < deadline
    /\ \E obs \in PollInputs :
          LET out == PollOutcome(obs, last_error)
          IN  /\ probe' = obs
              /\ last_error' = out.last_error
              /\ CASE out.kind = "raise" ->
                        /\ error' = "LocatorScanError"
                        /\ pc' = "finally_context"
                        /\ UNCHANGED <<table, attempt>>
                   [] out.kind = "return" ->
                        /\ table' = obs.loc
                        /\ pc' = "collect"
                        /\ UNCHANGED <<error, attempt>>
                   [] out.kind = "retry" ->
                        /\ attempt' = attempt + 1
                        /\ pc' = "sleep"
                        /\ UNCHANGED <<error, table>>
    /\ UNCHANGED <<now, deadline, raw_rows, row_idx, positions, origin, returned,
                   exceeding, outbox, context_open, browser_open, parseVars>>

\* line 125: page.wait_for_timeout(ROW_POLL_INTERVAL_MS); the clock advances by at
\* least the interval
Sleep ==
    /\ pc = "sleep"
    /\ \E outcome \in {"woke", "Error"}, late \in {0, MaxLateMs} :
          IF outcome = "Error"
          THEN /\ error' = "WaitError"
               /\ pc' = "finally_context"
               /\ now' = now
          ELSE /\ now' = now + ROW_POLL_INTERVAL_MS + late
               /\ pc' = "poll"
               /\ error' = error
    /\ UNCHANGED <<deadline, attempt, last_error, probe, table, raw_rows, row_idx,
                   positions, origin, returned, exceeding, outbox, context_open,
                   browser_open, parseVars>>

\* line 166: collect_table_rows(table), on the page as it is by then; the locals of
\* wait_for_perp_table are gone, and the clock is no longer read
Collect ==
    /\ pc = "collect"
    /\ \E raises \in BOOLEAN, rows \in Collectable(table) :
          IF raises
          THEN /\ error' = "CollectError"
               /\ pc' = "finally_context"
               /\ raw_rows' = raw_rows
          ELSE /\ raw_rows' = rows
               /\ pc' = "build"
               /\ error' = error
    /\ now' = 0
    /\ deadline' = 0
    /\ attempt' = 0
    /\ last_error' = None
    /\ probe' = NoProbe
    /\ UNCHANGED <<table, row_idx, positions, origin, returned, exceeding, outbox,
                   context_open, browser_open, parseVars>>

\* a loop that lets a rejected row end the run
BuildRowAborting ==
    /\ pc = "build"
    /\ row_idx < Len(raw_rows)
    /\ LET built == BuildPosition(raw_rows[row_idx + 1])
       IN  IF built.keep
           THEN /\ positions' = Append(positions, built.pos)
                /\ origin' = Append(origin, row_idx + 1)
                /\ UNCHANGED <<pc, error>>
           ELSE /\ error' = "RowRejected"
                /\ pc' = "finally_context"
                /\ UNCHANGED <<positions, origin>>
    /\ row_idx' = row_idx + 1
    /\ UNCHANGED <<now, deadline, attempt, last_error, probe, table, raw_rows,
                   returned, exceeding, outbox, context_open, browser_open, parseVars>>

\* lines 169-192: one iteration of the for loop
BuildRow ==
    /\ pc = "build"
    /\ row_idx < Len(raw_rows)
    /\ LET built == BuildPosition(raw_rows[row_idx + 1])
       IN  IF built.keep
           THEN /\ positions' = Append(positions, built.pos)
                /\ origin' = Append(origin, row_idx + 1)
           ELSE UNCHANGED <<positions, origin>>
    /\ row_idx' = row_idx + 1
    /\ UNCHANGED <<pc, now, deadline, attempt, last_error, probe, table, raw_rows,
                   returned, exceeding, outbox, context_open, browser_open, error,
                   parseVars>>

\* lines 193-194: return positions
BuildReturn ==
    /\ pc = "build"
    /\ row_idx = Len(raw_rows)
    /\ returned' = [ok |-> TRUE, val |-> positions]
    /\ pc' = "finally_context"
    /\ UNCHANGED <<now, deadline, attempt, last_error, probe, table, raw_rows, row_idx,
                   positions, origin, exceeding, outbox, context_open, browser_open,
                   error, parseVars>>

\* line 196: context.close()
CloseContext ==
    /\ pc = "finally_context"
    /\ context_open' = FALSE
    /\ pc' = "finally_browser"
    /\ UNCHANGED <<now, deadline, attempt, last_error, probe, table, raw_rows, row_idx,
                   positions, origin, returned, exceeding, outbox, browser_open, error,
                   parseVars>>

\* a main that carries on after a failed scrape
AfterFinallySwallowing == "evaluate"

\* where control goes when the finally block ends
AfterFinally == IF error = None THEN "evaluate" ELSE "failed"

\* a scrape that closes the browser after its return statement instead of in a
\* finally block: an exception passes the close by
CloseBrowserOnReturnOnly ==
    /\ pc = "finally_browser"
    /\ browser_open' = (browser_open /\ error /= None)
    /\ pc' = AfterFinally
    /\ UNCHANGED <<now, deadline, attempt, last_error, probe, table, raw_rows, row_idx,
                   positions, origin, returned, exceeding, outbox, context_open, error,
                   parseVars>>

\* line 197: browser.close(); then the return value reaches main (line 244), or the
\* exception leaves scrape_perp_positions and main
CloseBrowser ==
    /\ pc = "finally_browser"
    /\ browser_open' = FALSE
    /\ pc' = AfterFinally
    /\ UNCHANGED <<now, deadline, attempt, last_error, probe, table, raw_rows, row_idx,
                   positions, origin, returned, exceeding, outbox, context_open, error,
                   parseVars>>

\* main, lines 246-258; a failed scrape leaves main with nothing to evaluate
Evaluate ==
    /\ pc = "evaluate"
    /\ exceeding' = ExceedingOf(IF returned.ok THEN returned.val ELSE <<>>)
    /\ pc' = "send"
    /\ UNCHANGED <<now, deadline, attempt, last_error, probe, table, raw_rows, row_idx,
                   positions, origin, returned, outbox, context_open, browser_open,
                   error, parseVars>>

\* a composer with its test inverted
ComposeInverted(exc) ==
    IF exc = <<>> THEN [subject |-> "alert", body |-> exc]
    ELSE [subject |-> "status", body |-> <<>>]

\* main, lines 260-265: the subject and what the body is composed from
Compose(exc) ==
    IF exc /= <<>> THEN [subject |-> "alert", body |-> exc]
    ELSE [subject |-> "status", body |-> <<>>]

\* main, line 267, and send_email: one call; a failure of the SMTP exchange
\* propagates out of main
SendEmail ==
    /\ pc = "send"
    /\ \E delivered \in BOOLEAN :
          /\ outbox' = Append(outbox, [message |-> Compose(exceeding),
                                       delivered |-> delivered])
          /\ IF delivered THEN pc' = "done" /\ error' = error
             ELSE pc' = "failed" /\ error' = "NotificationFailure"
    /\ UNCHANGED <<now, deadline, attempt, last_error, probe, table, raw_rows, row_idx,
                   positions, origin, returned, exceeding, context_open, browser_open,
                   parseVars>>

Next ==
    \/ Launch
    \/ Goto
    \/ WaitForLoadState
    \/ WaitEnter
    \/ Poll
    \/ WaitTimeout
    \/ Sleep
    \/ Collect
    \/ BuildRow
    \/ BuildReturn
    \/ CloseContext
    \/ CloseBrowser
    \/ Evaluate
    \/ SendEmail

Spec == Init /\ [][Next]_vars

(***************************************************************************)
(* Claims about the cycle                                                  *)
(***************************************************************************)
\* the poll saw a table with rows: a Locator, and a positive row count under a
\* selector whose count did not raise
ShowsRows(obs) ==
    /\ obs.kind = "probe"
    /\ obs.loc.kind /= "None"
    /\ \E k \in 1..Len(RowSelectors) :
          RowSelectors[k] \notin obs.raising /\ obs.counts[k] > 0

(* C1: a poll whose table shows no rows under any selector is followed by the
   wait, a poll whose table shows rows under some selector returns that table
   at once, without another wait; a returned table showed rows under at least
   one selector during the poll that returned it. *)
C1_ReturnsOnFirstPollWithRows ==
    /\ pc = "sleep" => ~ShowsRows(probe)
    /\ pc = "collect" => ShowsRows(probe) /\ table = probe.loc
    /\ (pc \in {"poll", "sleep"} /\ attempt > 1) =>
          probe.kind = "probe" /\ ~ShowsRows(probe) /\ table = NoTable

\* returned on the third poll, after two polls without rows, by the second selector
C1_Witness ==
    /\ pc = "collect"
    /\ attempt = 3
    /\ now < deadline
    /\ probe.counts[1] = 0
    /\ probe.counts[2] > 0
    /\ table = probe.loc

\* wait_for_perp_table has ended
WaitEnded ==
    /\ pc \notin {"start", "goto", "load_state", "wait_enter", "poll", "sleep"}
    /\ error \notin {"LaunchError", "NavigationError", "LoadStateError"}

(* C2, as claimed: whenever wait_for_perp_table ends without returning a table,
   every poll wait having completed, it ended by raising the RuntimeError of
   line 127 (TableNotFound). *)
C2_EndsWithTableNotFound ==
    (WaitEnded /\ error /= "WaitError" /\ table = NoTable) => error = "TableNotFound"

(* C2, the part that holds: the polls are bounded by the time budget (a wait
   lasts at least the poll interval, so no more polls start than intervals fit
   in the budget), and a wait that ended without a table ended with an error:
   the RuntimeError, or the error of a query the loop does not catch. *)
C2_PollsAreBounded ==
    /\ attempt <= (TABLE_WAIT_SECONDS * 1000) \div ROW_POLL_INTERVAL_MS + 1
    /\ pc = "poll" => now >= (attempt - 1) * ROW_POLL_INTERVAL_MS
    /\ pc = "sleep" => now >= (attempt - 2) * ROW_POLL_INTERVAL_MS /\ now < deadline
    /\ (WaitEnded /\ table = NoTable) =>
          error \in {"TableNotFound", "LocatorScanError", "WaitError"}
    /\ (error = "TableNotFound") => table = NoTable

(* C3: once wait_for_perp_table has failed with TableNotFound the cycle only
   closes the browser and fails: no Position list is returned, nothing is
   evaluated, nothing is sent, and the error stays the one that ends main. *)
C3_TableNotFoundAbortsCycle ==
    error = "TableNotFound" =>
        /\ pc \in {"finally_context", "finally_browser", "failed"}
        /\ returned = NoList
        /\ positions = <<>>
        /\ exceeding = <<>>
        /\ outbox = <<>>

C3_Witness ==
    /\ pc = "failed"
    /\ error = "TableNotFound"
    /\ ~context_open
    /\ ~browser_open

\* 50000, the threshold in USD
ThresholdUSD == 50000

\* |size * mark_price| > 50000, in integers
MagnitudeExceeds(pos) ==
    pos.size.coef * pos.mark_price.coef
        > ThresholdUSD * Pow10(pos.size.scale + pos.mark_price.scale)

(* C4: send_email is called at most once per cycle; a cycle whose scrape
   returned calls it exactly once, with the alert if some Position exceeds the
   threshold and with the status otherwise; there is no third message; an
   undelivered message ends the cycle in failure. *)
C4_OneMessagePerCycle ==
    /\ Len(outbox) <= 1
    /\ \A i \in 1..Len(outbox) : outbox[i].message.subject \in {"alert", "status"}
    /\ (pc \in {"done", "failed"} /\ returned.ok) =>
          /\ Len(outbox) = 1
          /\ outbox[1].message.subject = "alert" <=>
                \E i \in 1..Len(returned.val) : MagnitudeExceeds(returned.val[i])
    /\ (outbox /= <<>> /\ ~outbox[1].delivered) =>
          pc = "failed" /\ error = "NotificationFailure"
    /\ pc = "done" => outbox /= <<>> /\ outbox[1].delivered

\* an alert delivered in a cycle that dropped rows
C4_Witness ==
    /\ pc = "done"
    /\ outbox[1].message.subject = "alert"
    /\ outbox[1].delivered
    /\ Len(raw_rows) > Len(returned.val)

(* C17: a table that wait_for_perp_table returned as ready gives at least one
   RawRow to the collect_table_rows call that follows, whatever the page shows
   at that time; a status message is never sent after an empty row set. *)
C17_ReadyTableYieldsRows ==
    /\ pc = "build" => raw_rows /= <<>>
    /\ \A i \in 1..Len(outbox) :
           (outbox[i].message.subject = "status" /\ returned.ok) => raw_rows /= <<>>

\* the status message delivered after a collection that returned no row
C17_StatusFromEmptyRows ==
    /\ pc = "done"
    /\ returned.ok
    /\ raw_rows = <<>>
    /\ Len(outbox) = 1
    /\ outbox[1].message.subject = "status"
    /\ outbox[1].delivered

\* the page exists: line 158 has returned
PageCreated == pc /= "start" /\ error /= "LaunchError"

\* control is inside the try block of lines 159-194
InTry == pc \in {"goto", "load_state", "wait_enter", "poll", "sleep", "collect", "build"}

\* scrape_perp_positions has been left, by its return or by an exception
LeftScrape == pc \in {"evaluate", "send", "done", "failed"}

(* C18: once the page has been created, the context and the browser are open
   while the try block runs and both are closed when scrape_perp_positions is
   left, by its return or by any exception; no notification exists before both
   are closed. *)
C18_ClosedOnEveryExit ==
    /\ (PageCreated /\ InTry) => (context_open /\ browser_open /\ outbox = <<>>)
    /\ (PageCreated /\ LeftScrape) => (~context_open /\ ~browser_open)
    /\ outbox /= <<>> => (~context_open /\ ~browser_open)

\* the navigation failed and the cycle ended with everything closed
C18_Witness ==
    /\ pc = "failed"
    /\ error = "NavigationError"
    /\ ~context_open
    /\ ~browser_open
    /\ outbox = <<>>

(***************************************************************************)
(* The Position Builder applied to every short list of rows                *)
(***************************************************************************)
MaxRows == 2

\* first cells: blank, the header in mixed case with a space before it, a coin
CoinCells == { <<" ">>, <<" ", "c", "O", "I", "N">>, <<"B", "T", "C">> }

LeverageCells == { <<"5", "x">> }

\* third cells: 2.5, a dash, -7 with a space after it
SizeCells == { <<"2", ".", "5">>, <<"-">>, <<"-", "7", " ">> }

\* fourth cells: $1,000 and the empty text
MarkCells == { <<"$", "1", ",", "0", "0", "0">>, <<>> }

ExtraCells == { <<"9">> }

RawRows ==
    { <<>> }
    \cup { <<c>> : c \in CoinCells }
    \cup { <<c, l>> : c \in CoinCells, l \in LeverageCells }
    \cup { <<c, l, z>> : c \in CoinCells, l \in LeverageCells, z \in SizeCells }
    \cup { <<c, l, z, m>> : c \in CoinCells, l \in LeverageCells, z \in SizeCells,
                            m \in MarkCells }
    \cup { <<c, l, z, m, e>> : c \in CoinCells, l \in LeverageCells, z \in SizeCells,
                               m \in MarkCells, e \in ExtraCells }

RowLists == UNION {[1..n -> RawRows] : n \in 0..MaxRows}

InitBuild ==
    /\ pc = "build"
    /\ raw_rows \in RowLists
    /\ now = 0
    /\ deadline = 0
    /\ attempt = 0
    /\ last_error = None
    /\ probe = NoProbe
    /\ table = NthTableLocator(1)
    /\ row_idx = 0
    /\ positions = <<>>
    /\ origin = <<>>
    /\ returned = NoList
    /\ exceeding = <<>>
    /\ outbox = <<>>
    /\ context_open = TRUE
    /\ browser_open = TRUE
    /\ error = None
    /\ raw_text = NoneText
    /\ parsed = Absent
    /\ formatted = NoneText
    /\ reparsed = Absent
    /\ document = NoPage
    /\ failing = {}
    /\ element = NoElement

NextBuild == BuildRow \/ BuildReturn

SpecBuild == InitBuild /\ [][NextBuild]_vars

\* the i-th cell of a row, trimmed; the empty text if the row has no i-th cell
CellOrEmpty(row, i) == IF i <= Len(row) THEN Strip(row[i]) ELSE <<>>

HasDigit(s) == \E i \in 1..Len(s) : IsDigit(s[i])

\* the indices of the raw rows that yielded a Position
Kept == {origin[k] : k \in 1..Len(origin)}

\* a row that has what a Position needs: a first cell that is not blank and is not
\* the header's, and a number in its third and in its fourth cell
ValidRow(row) ==
    /\ Len(row) >= 4
    /\ Strip(row[1]) /= <<>>
    /\ Upper(Strip(row[1])) /= COIN
    /\ HasDigit(row[3])
    /\ HasDigit(row[4])

(* C6: every Position has a non-empty coin, a size parsed from the third cell of
   its row and a mark price parsed from the fourth, both present; no consumed
   row with an empty coin, or whose size or mark text parses to absent, yielded
   a Position. *)
C6_PositionsAreFullyParsed ==
    /\ Len(origin) = Len(positions)
    /\ \A k \in 1..Len(positions) :
          LET row == raw_rows[origin[k]]
              pos == positions[k]
          IN  /\ Len(row) >= 4
              /\ pos.coin /= <<>>
              /\ pos.coin = Strip(row[1])
              /\ pos.size /= Absent
              /\ pos.size = parse_decimal_from_text(Str(row[3]))
              /\ pos.mark_price /= Absent
              /\ pos.mark_price = parse_decimal_from_text(Str(row[4]))
    /\ \A j \in 1..row_idx :
          (\/ CellOrEmpty(raw_rows[j], 1) = <<>>
           \/ parse_decimal_from_text(Str(CellOrEmpty(raw_rows[j], 3))) = Absent
           \/ parse_decimal_from_text(Str(CellOrEmpty(raw_rows[j], 4))) = Absent)
          => j \notin Kept

\* a Position built beside a row dropped for its blank coin
C6_Witness ==
    /\ pc = "finally_context"
    /\ Len(raw_rows) = 2
    /\ Len(raw_rows[1]) = 4
    /\ Strip(raw_rows[1][1]) = <<>>
    /\ HasDigit(raw_rows[1][3])
    /\ HasDigit(raw_rows[1][4])
    /\ origin = <<2>>
    /\ positions[1].mark_price = [kind |-> "Decimal", neg |-> FALSE, coef |-> 1000,
                                  scale |-> 0]

(* C7: the Positions come from the valid rows, one each, in the order of the
   rows; a rejected row ends nothing: no error arises and the loop returns only
   after it has consumed every row. *)
C7_OrderPreservingFilterMap ==
    /\ Len(origin) = Len(positions)
    /\ \A a, b \in 1..Len(origin) : a < b => origin[a] < origin[b]
    /\ \A k \in 1..Len(origin) : origin[k] <= row_idx
    /\ \A j \in 1..row_idx : ValidRow(raw_rows[j]) <=> j \in Kept
    /\ error = None
    /\ row_idx <= Len(raw_rows)
    /\ pc /= "build" => row_idx = Len(raw_rows) /\ returned = [ok |-> TRUE, val |-> positions]

\* a rejected row first, a valid row after it, both consumed
C7_Witness ==
    /\ pc = "finally_context"
    /\ Len(raw_rows) = 2
    /\ ~ValidRow(raw_rows[1])
    /\ raw_rows[1] /= <<>>
    /\ ValidRow(raw_rows[2])
    /\ origin = <<2>>

(* C8: a consumed row whose first cell, trimmed and upper-cased, is "COIN"
   yielded no Position, whatever its other cells hold. *)
C8_HeaderRowExcluded ==
    \A j \in 1..row_idx :
        (Len(raw_rows[j]) >= 1 /\ Upper(Strip(raw_rows[j][1])) = COIN) => j \notin Kept

\* " cOIN" | 5x | 2.5 | $1,000 consumed, and nothing built
C8_Witness ==
    /\ pc = "finally_context"
    /\ raw_rows = << << <<" ", "c", "O", "I", "N">>, <<"5", "x">>, <<"2", ".", "5">>,
                        <<"$", "1", ",", "0", "0", "0">> >> >>
    /\ positions = <<>>

(* C9: a row of fewer than four cells is consumed without an error, its missing
   cells read as empty texts, and is dropped when its size or mark text parses
   to absent; the Position of a row of more than four cells is made of its
   first four cells alone. *)
C9_ShortRowsPaddedLongRowsCut ==
    /\ error = None
    /\ \A j \in 1..row_idx :
          LET row == raw_rows[j]
          IN  (Len(row) < 4 /\
                 (\/ parse_decimal_from_text(Str(CellOrEmpty(row, 3))) = Absent
                  \/ parse_decimal_from_text(Str(CellOrEmpty(row, 4))) = Absent))
              => j \notin Kept
    /\ \A k \in 1..Len(origin) :
          LET row == raw_rows[origin[k]]
          IN  Len(row) > 4 =>
                 positions[k] = [coin |-> Strip(row[1]),
                                 leverage |-> Strip(row[2]),
                                 size |-> parse_decimal_from_text(Str(row[3])),
                                 mark_price |-> parse_decimal_from_text(Str(row[4]))]
    /\ \A j \in 1..row_idx :
          Len(raw_rows[j]) > 4 =>
             (j \in Kept <=> ValidRow(SubSeq(raw_rows[j], 1, 4)))

\* a row of two cells dropped, a row of five cells built from its first four
C9_Witness ==
    /\ pc = "finally_context"
    /\ Len(raw_rows) = 2
    /\ Len(raw_rows[1]) = 3
    /\ Strip(raw_rows[1][1]) = <<"B", "T", "C">>
    /\ HasDigit(raw_rows[1][3])
    /\ Len(raw_rows[2]) = 5
    /\ origin = <<2>>

(***************************************************************************)
(* The Threshold Evaluator applied to every short list of Positions        *)
(***************************************************************************)
MaxPositions == 3

Dec(neg, coef, scale) == [kind |-> "Decimal", neg |-> neg, coef |-> coef, scale |-> scale]

\* sizes 6, -4, -7, 5, 2.5 and -2.50
SizeValues ==
    { Dec(FALSE, 6, 0), Dec(TRUE, 4, 0), Dec(TRUE, 7, 0), Dec(FALSE, 5, 0),
      Dec(FALSE, 25, 1), Dec(TRUE, 250, 2) }

\* mark prices 10000 and 20000.0
MarkValues == { Dec(FALSE, 10000, 0), Dec(FALSE, 200000, 1) }

SamplePositions ==
    { [coin |-> <<"B", "T", "C">>, leverage |-> <<>>, size |-> z, mark_price |-> m] :
        z \in SizeValues, m \in MarkValues }

PositionLists == UNION {[1..n -> SamplePositions] : n \in 0..MaxPositions}

InitEval ==
    /\ pc = "evaluate"
    /\ returned \in {[ok |-> TRUE, val |-> ps] : ps \in PositionLists}
    /\ now = 0
    /\ deadline = 0
    /\ attempt = 0
    /\ last_error = None
    /\ probe = NoProbe
    /\ table = NthTableLocator(1)
    /\ raw_rows = <<>>
    /\ row_idx = 0
    /\ positions = <<>>
    /\ origin = <<>>
    /\ exceeding = <<>>
    /\ outbox = <<>>
    /\ context_open = FALSE
    /\ browser_open = FALSE
    /\ error = None
    /\ raw_text = NoneText
    /\ parsed = Absent
    /\ formatted = NoneText
    /\ reparsed = Absent
    /\ document = NoPage
    /\ failing = {}
    /\ element = NoElement

NextEval == Evaluate

SpecEval == InitEval /\ [][NextEval]_vars

(* C5: the evaluator selects, in their order, exactly the Positions with
   |size * mark price| strictly above 50000: a value of exactly 50000 is left
   out, a negative value counts by its magnitude. *)
C5_SelectsStrictlyAboveThreshold ==
    pc = "send" => exceeding = SelectSeq(returned.val, MagnitudeExceeds)

\* values 60000, -40000, -70000: the first and the third are selected
C5_Witness ==
    /\ pc = "send"
    /\ Len(returned.val) = 3
    /\ returned.val[1].size = Dec(FALSE, 6, 0)
    /\ returned.val[2].size = Dec(TRUE, 4, 0)
    /\ returned.val[3].size = Dec(TRUE, 7, 0)
    /\ \A i \in 1..3 : returned.val[i].mark_price = Dec(FALSE, 10000, 0)
    /\ exceeding = <<returned.val[1], returned.val[3]>>

(***************************************************************************)
(* The Numeric Text Parser applied to every short text                     *)
(***************************************************************************)
MaxTextLen == 4

Alphabet == {"0", "7", "-", ".", ",", "$", "U", "S", "D", " "}

Texts == UNION {[1..k -> Alphabet] : k \in 0..MaxTextLen}

\* cell texts as the page shows them: a price, a size, a text with two numbers
SampleTexts ==
    { <<"$", "1", "2", ",", "3", "4", "5", ".", "5", "0", " ", "U", "S", "D">>,
      <<"-", "3", ",", "0", "0", "0">>,
      <<"1", "0", "x", " ", "2", "5", ".", "5">>,
      <<"N", "/", "A">> }

InitParse ==
    /\ pc = "parse"
    /\ raw_text \in {NoneText} \cup {Str(s) : s \in Texts \cup SampleTexts}
    /\ parsed = [kind |-> "pending"]
    /\ formatted = NoneText
    /\ reparsed = [kind |-> "pending"]
    /\ document = NoPage
    /\ failing = {}
    /\ element = NoElement
    /\ IdleCycle

ParseCall ==
    /\ pc = "parse"
    /\ parsed' = parse_decimal_from_text(raw_text)
    /\ pc' = "parsed"
    /\ UNCHANGED <<now, deadline, attempt, last_error, probe, table, raw_rows, row_idx,
                   positions, origin, returned, exceeding, outbox, context_open,
                   browser_open, error, raw_text, formatted, reparsed, document, failing,
                   element>>

NextParse == ParseCall

SpecParse == InitParse /\ [][NextParse]_vars

\* the text m, a match of NUMERIC_PATTERN, denotes zero: its digits are all "0"
DenotesZero(m) == \A i \in 1..Len(m) : IsDigit(m[i]) => m[i] = "0"

(* C10: a text without a digit (the empty text and None included) parses to
   absent; the parser ends with absent or a Decimal, never an error; and it
   returns a zero only when the substring the pattern matched denotes zero. *)
C10_NoDigitIsAbsent ==
    pc = "parsed" =>
        /\ parsed.kind \in {"None", "Decimal"}
        /\ (raw_text.none \/ ~HasDigit(raw_text.text)) => parsed = Absent
        /\ (parsed.kind = "Decimal" /\ parsed.coef = 0) =>
               /\ ~raw_text.none
               /\ NUMERIC_PATTERN_search(Sanitize(raw_text.text)).found
               /\ DenotesZero(NUMERIC_PATTERN_search(Sanitize(raw_text.text)).group)

\* "-.$" : punctuation of a number without any digit, parsed to absent
C10_Witness ==
    /\ pc = "parsed"
    /\ raw_text = Str(<<"-", ".", "$">>)
    /\ parsed = Absent

\* s is one or more digits
AllDigits(s) == s /= <<>> /\ \A i \in 1..Len(s) : IsDigit(s[i])

\* m is a numeral: an optional minus sign, digits, optionally "." and digits
IsNumeral(m) ==
    LET body == IF m /= <<>> /\ m[1] = "-" THEN Tail(m) ELSE m
    IN  \/ AllDigits(body)
        \/ \E k \in 2..(Len(body) - 1) :
               /\ body[k] = "."
               /\ AllDigits(SubSeq(body, 1, k - 1))
               /\ AllDigits(SubSeq(body, k + 1, Len(body)))

\* the first numeral in s: the leftmost start of a numeral, then the longest one there
FirstNumeral(s) ==
    LET starts == {i \in 1..Len(s) : \E j \in i..Len(s) : IsNumeral(SubSeq(s, i, j))}
    IN  IF starts = {} THEN [found |-> FALSE]
        ELSE LET i == CHOOSE a \in starts : \A b \in starts : a <= b
                 j == CHOOSE a \in i..Len(s) :
                          /\ IsNumeral(SubSeq(s, i, a))
                          /\ \A b \in (a + 1)..Len(s) : ~IsNumeral(SubSeq(s, i, b))
             IN  [found |-> TRUE, group |-> SubSeq(s, i, j)]

(* C11: the parser returns the decimal of the first numeral (optional minus,
   digits, optional "." and digits) of the sanitised text and ignores later
   numbers; parsing that numeral alone gives the same decimal; and "$", the
   thousands separators and a trailing " USD" do not change the result. *)
C11_FirstNumeralOfSanitizedText ==
    (pc = "parsed" /\ ~raw_text.none) =>
        LET first == FirstNumeral(Sanitize(raw_text.text))
        IN  /\ parsed = IF first.found THEN Decimal(first.group) ELSE Absent
            /\ first.found => parse_decimal_from_text(Str(first.group)) = parsed
            /\ parse_decimal_from_text(Str(RemoveChar(raw_text.text, ","))) = parsed
            /\ parse_decimal_from_text(Str(RemoveChar(raw_text.text, "$"))) = parsed
            /\ parse_decimal_from_text(Str(<<"$">> \o raw_text.text)) = parsed
            /\ parse_decimal_from_text(Str(raw_text.text \o <<" ", "U", "S", "D">>)) = parsed

\* "$12,345.50 USD" parsed to 12345.50
C11_Witness ==
    /\ pc = "parsed"
    /\ raw_text = Str(<<"$", "1", "2", ",", "3", "4", "5", ".", "5", "0", " ", "U", "S", "D">>)
    /\ parsed = Dec(FALSE, 1234550, 2)

(***************************************************************************)
(* The display formatters applied to parsed values, and the text re-parsed *)
(***************************************************************************)
WholeParts == { <<"0">>, <<"7">>, <<"9", "9", "9">>, <<"1", "2", "3", "4">>,
                <<"1", "2", "3", "4", "5", "6", "7">> }

FractionParts == { <<>>, <<".", "5">>, <<".", "5", "0">>, <<".", "0", "0", "5">>,
                   <<".", "0", "1", "5">>, <<".", "9", "9", "5">>,
                   <<".", "1", "2", "3", "4", "5", "6">>,
                   <<".", "0", "0", "0", "0", "0", "0", "7">>,
                   <<".", "1", "2", "3", "4", "5", "6", "5">>,
                   <<".", "9", "9", "9", "9", "9", "9", "5">> }

\* numerals the parser turns into a Decimal whose coefficient has at most 9 digits
RoundTexts ==
    { sign \o part[1] \o part[2] :
        sign \in {<<>>, <<"-">>},
        part \in {p \in WholeParts \X FractionParts : Len(p[1]) + Len(p[2]) <= 9} }

Formatters == {"format_decimal", "format_currency"}

InitRound ==
    /\ pc = "parse"
    /\ raw_text \in {Str(s) : s \in RoundTexts}
    /\ parsed = [kind |-> "pending"]
    /\ formatted = NoneText
    /\ reparsed = [kind |-> "pending"]
    /\ document = NoPage
    /\ failing = {}
    /\ element = NoElement
    /\ IdleCycle

FormatCall ==
    /\ pc = "parsed"
    /\ parsed.kind = "Decimal"
    /\ \E formatter \in Formatters :
           formatted' = Str(IF formatter = "format_decimal" THEN format_decimal(parsed)
                                                            ELSE format_currency(parsed))
    /\ pc' = "formatted"
    /\ UNCHANGED <<now, deadline, attempt, last_error, probe, table, raw_rows, row_idx,
                   positions, origin, returned, exceeding, outbox, context_open,
                   browser_open, error, raw_text, parsed, reparsed, document, failing,
                   element>>

ReparseCall ==
    /\ pc = "formatted"
    /\ reparsed' = parse_decimal_from_text(formatted)
    /\ pc' = "reparsed"
    /\ UNCHANGED <<now, deadline, attempt, last_error, probe, table, raw_rows, row_idx,
                   positions, origin, returned, exceeding, outbox, context_open,
                   browser_open, error, raw_text, parsed, formatted, document, failing,
                   element>>

NextRound == ParseCall \/ FormatCall \/ ReparseCall

SpecRound == InitRound /\ [][NextRound]_vars

\* the Decimal a without the trailing zeros of its fraction
RECURSIVE Trimmed(_)
Trimmed(a) ==
    IF a.scale > 0 /\ a.coef % 10 = 0
    THEN Trimmed([a EXCEPT !.coef = a.coef \div 10, !.scale = a.scale - 1])
    ELSE a

\* a and b are numerically equal: they differ in trailing zeros at most
NumericallyEqual(a, b) ==
    /\ a.kind = "Decimal"
    /\ b.kind = "Decimal"
    /\ Trimmed(a).coef = Trimmed(b).coef
    /\ Trimmed(a).scale = Trimmed(b).scale
    /\ (a.neg = b.neg \/ a.coef = 0)

(* C12: re-parsing the text that format_decimal or format_currency gives for a
   parsed decimal recovers a decimal numerically equal to it. *)
C12_RoundTripRecovers ==
    pc = "reparsed" => NumericallyEqual(reparsed, parsed)

\* what does hold: the round trip of a decimal of at most 6 decimal places
\* through format_decimal, of at most 2 through format_currency
C12_RoundTripWithinPlaces ==
    (pc = "reparsed" /\ Trimmed(parsed).scale <= (IF formatted.text[1] = "$" THEN 2 ELSE 6))
        => NumericallyEqual(reparsed, parsed)

\* 0.0000007 formatted as "0.000001"
C12_RoundedAway ==
    /\ pc = "reparsed"
    /\ parsed = Dec(FALSE, 7, 7)
    /\ formatted = Str(<<"0", ".", "0", "0", "0", "0", "0", "1">>)
    /\ reparsed = Dec(FALSE, 1, 6)

(***************************************************************************)
(* The Table Locator applied to a page                                     *)
(***************************************************************************)
\* pages with two tables of matching headers, and with several headings
LocatePages ==
    Pages \cup
    { [headings |-> <<>>, tables |-> <<QuietTable, PopulatedTable>>],
      [headings |-> <<>>, tables |-> <<OtherTable, RenderingTable, PopulatedTable>>],
      [headings |-> <<2, 1>>, tables |-> <<QuietTable, PopulatedTable>>],
      [headings |-> <<0, 0>>, tables |-> <<OtherTable, PopulatedTable>>],
      [headings |-> <<0, 3, 2>>, tables |-> <<OtherTable, RenderingTable, PopulatedTable>>] }

LocateQueries == {"heading", "scan"}

InitLocate ==
    /\ pc = "locate"
    /\ document \in LocatePages
    /\ failing \in SUBSET LocateQueries
    /\ element = NoElement
    /\ raw_text = NoneText
    /\ parsed = Absent
    /\ formatted = NoneText
    /\ reparsed = Absent
    /\ IdleCycle

LocateCall ==
    /\ pc = "locate"
    /\ LET located == locate_perp_table(document, failing)
       IN  /\ table' = located.loc
           /\ error' = IF located.raised THEN "LocatorScanError" ELSE None
    /\ pc' = "located"
    /\ UNCHANGED <<now, deadline, attempt, last_error, probe, raw_rows, row_idx,
                   positions, origin, returned, exceeding, outbox, context_open,
                   browser_open, parseVars>>

NextLocate == LocateCall

SpecLocate == InitLocate /\ [][NextLocate]_vars

\* the page without the elements that match "Perpetual Positions"
WithoutHeadings(pg) == [pg EXCEPT !.headings = <<>>]

(* C13: when the heading heuristic fails, locate_perp_table gives what the
   fallback scan gives (its table, none, or the scan's own error), as on the
   same page without any heading; an error leaves the function only if the
   scan itself raises. *)
C13_PrimaryFailureFallsBack ==
    (pc = "located" /\ "heading" \in failing) =>
        LET fallback == locate_perp_table(WithoutHeadings(document), failing \ {"heading"})
        IN  /\ (error /= None) <=> ("scan" \in failing)
            /\ (error /= None) <=> fallback.raised
            /\ table = fallback.loc
            /\ table.kind /= "heading"

\* the heading query failed on a page whose heading has a table in scope: the
\* second table, the one with the matching headers, is returned
C13_Witness ==
    /\ pc = "located"
    /\ failing = {"heading"}
    /\ document = [headings |-> <<1>>, tables |-> <<OtherTable, PopulatedTable>>]
    /\ table = NthTableLocator(2)
    /\ error = None

(* C15: if no query fails, the table of the first heading that has a table in
   its scope is returned; only if no heading has one, the first table in document
   order whose headers match; none if there is neither.  A table found by its
   headers is never returned while a heading has a table in scope. *)
C15_HeadingBeforeHeaders ==
    (pc = "located" /\ failing = {}) =>
        LET withTable == {i \in 1..Len(document.headings) : document.headings[i] > 0}
            matching == {i \in 1..Len(document.tables) : HeadersMatch(document.tables[i])}
        IN  /\ error = None
            /\ withTable /= {} =>
                   /\ table.kind = "heading"
                   /\ table.idx \in withTable
                   /\ \A i \in withTable : table.idx <= i
                   /\ Resolve(document, table) = document.tables[document.headings[table.idx]]
            /\ (withTable = {} /\ matching /= {}) =>
                   /\ table.kind = "nth"
                   /\ table.idx \in matching
                   /\ \A i \in matching : table.idx <= i
            /\ (withTable = {} /\ matching = {}) => table = NoTable

\* the heading's table is returned although a later table has the matching headers
C15_Witness ==
    /\ pc = "located"
    /\ failing = {}
    /\ document = [headings |-> <<0, 2>>, tables |-> <<OtherTable, PopulatedTable>>]
    /\ table = HeadingLocator(2)

(***************************************************************************)
(* The Row Collector applied to a table element                            *)
(***************************************************************************)
MaxTableRows == 3

\* a row of the table body with th cells only
BodyHeadTr ==
    [tag |-> "tr", in_tbody |-> TRUE, role_row |-> FALSE, td |-> <<>>, role_cell |-> <<>>]

\* a tr outside any tbody, with td cells
BareTr(cells) ==
    [tag |-> "tr", in_tbody |-> FALSE, role_row |-> FALSE, td |-> cells, role_cell |-> <<>>]

\* a tr of the body whose cells are role="cell" elements
AriaCellTr(cells) ==
    [tag |-> "tr", in_tbody |-> TRUE, role_row |-> FALSE, td |-> <<>>, role_cell |-> cells]

RowElements ==
    { HeadTr, BodyHeadTr, Tr(BtcCells), BareTr(EthCells), AriaCellTr(SolCells),
      AriaRow(BtcCells), AriaRow(<<>>) }

TableElements ==
    { [th |-> PerpHeaders, rows |-> rs] :
        rs \in UNION {[1..n -> RowElements] : n \in 0..MaxTableRows} }

InitCollect ==
    /\ pc = "collect_call"
    /\ element \in TableElements
    /\ document = NoPage
    /\ failing = {}
    /\ raw_text = NoneText
    /\ parsed = Absent
    /\ formatted = NoneText
    /\ reparsed = Absent
    /\ IdleCycle

CollectCall ==
    /\ pc = "collect_call"
    /\ raw_rows' = collect_table_rows(element)
    /\ pc' = "collected"
    /\ UNCHANGED <<now, deadline, attempt, last_error, probe, table, row_idx,
                   positions, origin, returned, exceeding, outbox, context_open,
                   browser_open, error, parseVars>>

NextCollect == CollectCall

SpecCollect == InitCollect /\ [][NextCollect]_vars

\* the RawRows of the k-th strategy: the cells of each of its rows that has cells
RawRowsOf(tbl, k) ==
    LET row_locator == RowsOf(tbl, RowSelectors[k])
    IN  SelectSeq([i \in 1..Len(row_locator) |-> CellsOf(row_locator[i])],
                  LAMBDA row : row /= <<>>)

(* C14: the rows returned are those of the first strategy, in the order tbody tr,
   tr, role row, under which the table has a positive row count; rows of a later
   strategy are never used once an earlier one has a positive row count; the
   empty sequence is returned only if no strategy gives a row. *)
C14_FirstStrategyWithRows ==
    pc = "collected" =>
        LET yielding == {k \in 1..Len(RowSelectors) : RowsOf(element, RowSelectors[k]) /= <<>>}
        IN  /\ yielding /= {} =>
                   \E k \in yielding :
                       /\ \A j \in yielding : k <= j
                       /\ raw_rows = RawRowsOf(element, k)
            /\ raw_rows = <<>> => \A k \in 1..Len(RowSelectors) : RawRowsOf(element, k) = <<>>

\* what does hold: the rows returned are those of the first strategy that
\* gives a row with cells, and none if there is no such strategy
C14_FirstStrategyWithCells ==
    pc = "collected" =>
        LET yielding == {k \in 1..Len(RowSelectors) : RawRowsOf(element, k) /= <<>>}
        IN  /\ yielding /= {} =>
                   \E k \in yielding :
                       /\ \A j \in yielding : k <= j
                       /\ raw_rows = RawRowsOf(element, k)
            /\ yielding = {} => raw_rows = <<>>

\* a body row of th cells, then an ARIA row: the ARIA row's cells are returned
\* although tbody tr has a positive row count
C14_LaterStrategyUsed ==
    /\ pc = "collected"
    /\ element.rows = <<BodyHeadTr, AriaRow(BtcCells)>>
    /\ raw_rows = <<BtcCells>>

(* C16: every RawRow returned has at least one cell, and the RawRows are the
   cells of rows of the table in the table's row order, so the first cell of
   every RawRow exists. *)
C16_RowsHaveCellsInOrder ==
    pc = "collected" =>
        /\ \A i \in 1..Len(raw_rows) : Len(raw_rows[i]) >= 1
        /\ \E f \in [1..Len(raw_rows) -> 1..Len(element.rows)] :
               /\ \A i \in 1..Len(raw_rows) : raw_rows[i] = CellsOf(element.rows[f[i]])
               /\ \A i, j \in 1..Len(raw_rows) : i < j => f[i] < f[j]

\* the row of th cells between two data rows is skipped, the order is kept
C16_Witness ==
    /\ pc = "collected"
    /\ element.rows = <<AriaCellTr(SolCells), BodyHeadTr, Tr(BtcCells)>>
    /\ raw_rows = <<SolCells, BtcCells>>

====
